---- MODULE Spec2Model ----
(***************************************************************************)
(* A model of the dns-go-yaml server: loadConfig / loadZoneData /          *)
(* addRecord build the record table dnsRecords from a YAML or CSV zone      *)
(* file, and handleRequest answers each question of an incoming message    *)
(* from that table, by forwarding to the upstream, or with NXDOMAIN.       *)
(* The repository also holds dns-server.go, the same server for a YAML     *)
(* zone only; its definitions carry the suffix V1.                         *)
(*                                                                         *)
(* handleRequest is cut where it blocks: one action runs it up to the call *)
(* of c.Exchange or to its return, one action runs it on from the return   *)
(* of c.Exchange.                                                          *)
(*                                                                         *)
(* Names and TTL fields are sequences of one-character strings, so that    *)
(* the suffix test, the case folding and the number parsing are computed.  *)
(***************************************************************************)
EXTENDS Integers, Sequences, FiniteSets, TLC

VARIABLES
    server,           \* the program main belongs to: "yaml-csv" (the server
                      \* with zone_file_format and enable_forwarding) or
                      \* "yaml-only" (dns-server.go); "none" before main
    phase,            \* position of main: "boot", "serving" or "fatal"
    zoneFile,         \* the zone file main was started on: [ext, content]
    loadErr,          \* err returned by loadConfig ("" is nil)
    zoneFileFormat,   \* global zoneFileFormat
    dnsRecords,       \* global dnsRecords: key -> sequence of RR
    forwarder,        \* global forwarder
    enableForwarding, \* global enableForwarding
    queryLogging,     \* global queryLogging
    queryLogOpen,     \* queryLog != nil
    hs                \* one handleRequest invocation per handler goroutine:
                      \*   pc     "idle", "exchange" (inside c.Exchange), "done"
                      \*   r, m   the request and the reply being built
                      \*   i      the index of the question being handled
                      \*   resp   the response of a successful exchange
                      \*   exch   the questions c.Exchange was called for
                      \*   errs   the questions whose exchange returned an error
                      \*   wrote  the messages given to w.WriteMsg
                      \*   log    the lines logQuery wrote for this request

vars == <<server, phase, zoneFile, loadErr, zoneFileFormat, dnsRecords, forwarder,
          enableForwarding, queryLogging, queryLogOpen, hs>>

globals == <<server, phase, zoneFile, loadErr, zoneFileFormat, dnsRecords, forwarder,
             enableForwarding, queryLogging, queryLogOpen>>

----------------------------------------------------------------------------
(* Bounds of the model.                                                    *)

MaxRecords == 2       \* entries of a zone file (YAML records, CSV data rows)
MaxQuestions == 2     \* questions carried by one incoming message
NumHandlers == 2      \* handleRequest invocations running concurrently

Handlers == 1..NumHandlers

SeqsUpTo(S, n) == UNION {[1..k -> S] : k \in 0..n}

----------------------------------------------------------------------------
(* Strings.                                                                *)

\* strings.ToLower on one character
LowerChar(c) ==
    IF c = "A" THEN "a" ELSE IF c = "B" THEN "b" ELSE c

\* strings.ToLower
ToLower(s) == [i \in 1..Len(s) |-> LowerChar(s[i])]

\* strings.HasSuffix(s, ".")
HasSuffix(s) == Len(s) > 0 /\ s[Len(s)] = "."

\* faulty variant: the trailing dot is never appended
addDotNever(name) == name

\* the trailing-dot step of addRecord and handleRequest
addDot(name) == IF ~HasSuffix(name) THEN Append(name, ".") ELSE name

Digits == {"0", "1", "2", "3", "4", "5", "6", "7", "8", "9"}

DigitVal(c) ==
    CASE c = "0" -> 0 [] c = "1" -> 1 [] c = "2" -> 2 [] c = "3" -> 3
      [] c = "4" -> 4 [] c = "5" -> 5 [] c = "6" -> 6 [] c = "7" -> 7
      [] c = "8" -> 8 [] c = "9" -> 9

\* the decimal digits of 2^32 - 1, the largest value ParseUint(s, 10, 32) takes
MaxUint32Digits == <<"4", "2", "9", "4", "9", "6", "7", "2", "9", "5">>

RECURSIVE StripZeros(_)
StripZeros(s) ==
    IF Len(s) > 1 /\ s[1] = "0" THEN StripZeros(Tail(s)) ELSE s

\* s <= t for digit strings of the same length
RECURSIVE DigitsLeq(_, _)
DigitsLeq(s, t) ==
    IF s = <<>> THEN TRUE
    ELSE IF DigitVal(s[1]) < DigitVal(t[1]) THEN TRUE
    ELSE IF DigitVal(s[1]) > DigitVal(t[1]) THEN FALSE
    ELSE DigitsLeq(Tail(s), Tail(t))

RECURSIVE DigitsValue(_, _)
DigitsValue(s, acc) ==
    IF s = <<>> THEN acc ELSE DigitsValue(Tail(s), 10 * acc + DigitVal(s[1]))

\* strconv.ParseUint(ttlStr, 10, 32) followed by uint32(): [err, ttl]
parseTTL(ttlStr) ==
    IF ttlStr = <<>> \/ \E i \in 1..Len(ttlStr) : ttlStr[i] \notin Digits
    THEN [err |-> TRUE, ttl |-> 0]
    ELSE LET d == StripZeros(ttlStr)
         IN IF Len(d) > Len(MaxUint32Digits)
               \/ (Len(d) = Len(MaxUint32Digits) /\ ~DigitsLeq(d, MaxUint32Digits))
            THEN [err |-> TRUE, ttl |-> 0]
            ELSE [err |-> FALSE, ttl |-> DigitsValue(d, 0)]

----------------------------------------------------------------------------
(* The record table.                                                       *)

\* the nil map and the map made by make(map[string][]dns.RR): no key
NilMap == <<>>

IPLiterals == {"192.0.2.1", "10.0.0.5"}

\* net.ParseIP: the address, or nil when data is no IP literal
ParseIP(data) == IF data \in IPLiterals THEN data ELSE "<nil>"

\* dnsRecords[key] = append(dnsRecords[key], rr)
appendRR(table, key, rr) ==
    [k \in (DOMAIN table) \cup {key} |->
        IF k = key
        THEN Append(IF key \in DOMAIN table THEN table[key] ELSE <<>>, rr)
        ELSE table[k]]

\* faulty variant: the record is stored under its name as written
recordKeyRaw(name) == name

\* the key addRecord stores a record under
recordKey(name) == ToLower(name)

\* addRecord: the table after adding one zone entry
addRecord(table, record) ==
    LET name == addDot(record.Name)
    IN CASE record.Type = "A" ->
              appendRR(table, recordKey(name),
                       [Name |-> name, Rrtype |-> "A", Ttl |-> record.TTL,
                        Rdata |-> ParseIP(record.Data)])
         [] record.Type = "CNAME" ->
              appendRR(table, recordKey(name),
                       [Name |-> name, Rrtype |-> "CNAME", Ttl |-> record.TTL,
                        Rdata |-> record.Data])
         [] OTHER -> table

RECURSIVE addRecords(_, _)
addRecords(table, records) ==
    IF records = <<>> THEN table
    ELSE addRecords(addRecord(table, Head(records)), Tail(records))

\* yaml.Decoder.Decode into Config: [err, records]
yamlDecode(content) ==
    IF content.kind = "yaml"
    THEN [err |-> FALSE, records |-> content.records]
    ELSE [err |-> TRUE, records |-> <<>>]

\* csv.Reader.ReadAll with FieldsPerRecord left 0: the first record fixes the
\* number of fields, and a later record with another number is an error
csvReadAll(content) ==
    IF content.kind # "csv"
    THEN [err |-> TRUE, records |-> <<>>]
    ELSE IF \E i \in 1..Len(content.rows) :
                Len(content.rows[i]) # Len(content.rows[1])
    THEN [err |-> TRUE, records |-> <<>>]
    ELSE [err |-> FALSE, records |-> content.rows]

\* whether the CSV loop of loadZoneData hands the row to addRecord
csvRowOk(row) == Len(row) = 4 /\ ~parseTTL(row[3]).err

\* the CSV loop of loadZoneData over the data rows
RECURSIVE addCsvRows(_, _)
addCsvRows(table, rows) ==
    IF rows = <<>> THEN table
    ELSE LET row == Head(rows)
         IN IF csvRowOk(row)
            THEN addCsvRows(
                     addRecord(table, [Name |-> row[1], Type |-> row[2],
                                       TTL |-> parseTTL(row[3]).ttl,
                                       Data |-> row[4]]),
                     Tail(rows))
            ELSE addCsvRows(table, Tail(rows))

\* loadZoneData: [err, dnsRecords]
loadZoneData(file, format) ==
    IF file.content.kind = "missing"
    THEN [err |-> "open", dnsRecords |-> NilMap]
    ELSE CASE format = "yaml" ->
                LET d == yamlDecode(file.content)
                IN IF d.err
                   THEN [err |-> "yaml", dnsRecords |-> NilMap]
                   ELSE [err |-> "", dnsRecords |-> addRecords(NilMap, d.records)]
           [] format = "csv" ->
                LET c == csvReadAll(file.content)
                IN IF c.err
                   THEN [err |-> "csv", dnsRecords |-> NilMap]
                   ELSE IF Len(c.records) <= 1
                   THEN [err |-> "", dnsRecords |-> NilMap]
                   ELSE [err |-> "",
                         dnsRecords |-> addCsvRows(NilMap, Tail(c.records))]
           [] OTHER -> [err |-> "format", dnsRecords |-> NilMap]

\* ini Key.MustBool(def)
MustBool(value, def) ==
    IF value \in {"1", "t", "T", "true", "TRUE", "True", "YES", "yes", "Yes",
                 "y", "ON", "on", "On"} THEN TRUE
    ELSE IF value \in {"0", "f", "F", "false", "FALSE", "False", "NO", "no",
                      "No", "n", "OFF", "off", "Off"} THEN FALSE
    ELSE def

\* the extension check of loadConfig: TRUE when log.Fatalf is reached
extMismatch(ext, format) ==
    \/ format = "yaml" /\ ext # ".yaml" /\ ext # ".yml"
    \/ format = "csv" /\ ext # ".csv"

\* loadConfig: err ("" is nil; "fatal" stands for the exit in log.Fatalf)
\* and the globals as it leaves them
loadConfig(conf, file) ==
    LET unset == [err |-> "", zoneFileFormat |-> "", dnsRecords |-> NilMap,
                  forwarder |-> "", queryLogging |-> FALSE,
                  enableForwarding |-> FALSE, queryLogOpen |-> FALSE]
        zone == loadZoneData(file, conf.zone_file_format)
        logging == MustBool(conf.query_logging, FALSE)
    IN IF ~conf.loadable THEN [unset EXCEPT !.err = "ini"]
       ELSE IF extMismatch(file.ext, conf.zone_file_format)
       THEN [unset EXCEPT !.err = "fatal",
                          !.zoneFileFormat = conf.zone_file_format]
       ELSE IF zone.err # ""
       THEN [unset EXCEPT !.err = zone.err,
                          !.zoneFileFormat = conf.zone_file_format,
                          !.dnsRecords = zone.dnsRecords]
       ELSE [err |-> IF logging /\ ~conf.logOpenable THEN "log" ELSE "",
             zoneFileFormat |-> conf.zone_file_format,
             dnsRecords |-> zone.dnsRecords,
             forwarder |-> conf.forwarder,
             queryLogging |-> logging,
             enableForwarding |-> MustBool(conf.enable_forwarding, TRUE),
             queryLogOpen |-> logging /\ conf.logOpenable]

\* faulty variant: main logs the error of loadConfig and goes on
startsServingAlways(err) == TRUE

\* main after loadConfig: whether the server goes on to ListenAndServe
startsServing(err) == err = ""

----------------------------------------------------------------------------
(* Messages and the query handler.                                         *)

RcodeSuccess == 0
RcodeServerFailure == 2
RcodeNameError == 3

\* new(dns.Msg)
NewMsg == [Rcode |-> RcodeSuccess, Question |-> <<>>, Answer |-> <<>>,
           Ns |-> <<>>, Extra |-> <<>>]

\* Msg.SetReply(r): a reply to r, with rcode NOERROR and r's first question
SetReply(m, r) ==
    [m EXCEPT !.Rcode = RcodeSuccess,
              !.Question = IF Len(r.Question) > 0 THEN <<r.Question[1]>> ELSE @]

\* faulty variant: the rcode is set on a fresh reply, dropping the answers so far
SetRcodeFresh(m, r, rcode) ==
    [SetReply([m EXCEPT !.Answer = <<>>], r) EXCEPT !.Rcode = rcode]

\* Msg.SetRcode(r, rcode): SetReply(r), then the rcode
SetRcode(m, r, rcode) == [SetReply(m, r) EXCEPT !.Rcode = rcode]

\* resp.CopyTo(m): m after the copy; an empty question section is not copied
CopyTo(resp, m) ==
    [Rcode |-> resp.Rcode,
     Question |-> IF Len(resp.Question) > 0 THEN resp.Question ELSE m.Question,
     Answer |-> resp.Answer, Ns |-> resp.Ns, Extra |-> resp.Extra]

\* logQuery: the query log after the call
logQuery(log, query, responseType) ==
    IF queryLogging /\ queryLogOpen
    THEN Append(log, [query |-> query, response |-> responseType])
    ELSE log

\* faulty variant: the query name is not lower-cased
queryKeyNoFold(name) == addDot(name)

\* the name handleRequest looks a question up under
queryKey(name) == ToLower(addDot(name))

\* faulty variant: the forwarding condition without the enable_forwarding switch
forwardingOnV1 == forwarder # ""

\* the forwarding condition of handleRequest
forwardingOn == enableForwarding /\ forwarder # ""

\* a handler goroutine with no request
Idle == [pc |-> "idle", r |-> [Question |-> <<>>], i |-> 0, m |-> NewMsg,
         resp |-> <<>>, exch |-> <<>>, errs |-> <<>>, wrote |-> <<>>,
         log |-> <<>>]

\* faulty variant: the NXDOMAIN branch without its logQuery call
answerNXDOMAINSilent(st) ==
    [st EXCEPT !.m = SetRcode(st.m, st.r, RcodeNameError), !.i = @ + 1]

\* the NXDOMAIN branch of the loop body for question i
answerNXDOMAIN(st) ==
    [st EXCEPT !.m = SetRcode(st.m, st.r, RcodeNameError),
               !.log = logQuery(@, st.r.Question[st.i].Name, "NXDOMAIN response"),
               !.i = @ + 1]

\* the local branch of the loop body for question i
answerLocal(st) ==
    LET records == dnsRecords[queryKey(st.r.Question[st.i].Name)]
    IN IF Len(records) > 0
       THEN [st EXCEPT !.m.Answer = @ \o records,
                       !.log = logQuery(@, st.r.Question[st.i].Name,
                                        "Authoritative response"),
                       !.i = @ + 1]
       ELSE [st EXCEPT !.i = @ + 1]

\* the successful-exchange branch: copy, SetReply, WriteMsg, logQuery, return
answerForwarded(st, resp) ==
    LET m == SetReply(CopyTo(resp, st.m), st.r)
    IN [st EXCEPT !.m = m, !.resp = <<resp>>, !.wrote = Append(@, m),
                  !.log = logQuery(@, st.r.Question[st.i].Name,
                                   "Forwarded response"),
                  !.pc = "done"]

\* the loop of handleRequest from question i on, up to the next call of
\* c.Exchange (pc "exchange") or to the final WriteMsg (pc "done")
RECURSIVE runLoop(_)
runLoop(st) ==
    IF st.i > Len(st.r.Question)
    THEN [st EXCEPT !.pc = "done", !.wrote = Append(@, st.m)]
    ELSE IF queryKey(st.r.Question[st.i].Name) \in DOMAIN dnsRecords
    THEN runLoop(answerLocal(st))
    ELSE IF forwardingOn
    THEN [st EXCEPT !.pc = "exchange", !.exch = Append(@, st.i)]
    ELSE runLoop(answerNXDOMAIN(st))

\* faulty variant: a failed exchange is tried once more
afterExchangeRetry(st, result) ==
    IF ~result.err
    THEN answerForwarded(st, result.resp)
    ELSE IF Cardinality({k \in 1..Len(st.exch) : st.exch[k] = st.i}) < 2
    THEN [st EXCEPT !.exch = Append(@, st.i), !.errs = Append(@, st.i)]
    ELSE runLoop(answerNXDOMAIN([st EXCEPT !.errs = Append(@, st.i)]))

\* what handleRequest does when c.Exchange returns (resp, err)
afterExchange(st, result) ==
    IF ~result.err
    THEN answerForwarded(st, result.resp)
    ELSE runLoop(answerNXDOMAIN([st EXCEPT !.errs = Append(@, st.i)]))

----------------------------------------------------------------------------
(* dns-server.go, the server that takes a YAML zone only.                  *)

\* the loop body of loadZoneData: the table after adding one zone entry
addRecordV1(table, record) ==
    CASE record.Type = "A" ->
           appendRR(table, record.Name,
                    [Name |-> record.Name, Rrtype |-> "A", Ttl |-> record.TTL,
                     Rdata |-> ParseIP(record.Data)])
      [] record.Type = "CNAME" ->
           appendRR(table, record.Name,
                    [Name |-> record.Name, Rrtype |-> "CNAME",
                     Ttl |-> record.TTL, Rdata |-> record.Data])
      [] OTHER -> table

RECURSIVE addRecordsV1(_, _)
addRecordsV1(table, records) ==
    IF records = <<>> THEN table
    ELSE addRecordsV1(addRecordV1(table, Head(records)), Tail(records))

\* loadZoneData: [err, dnsRecords]
loadZoneDataV1(file) ==
    IF file.content.kind = "missing"
    THEN [err |-> "open", dnsRecords |-> NilMap]
    ELSE LET d == yamlDecode(file.content)
         IN IF d.err
            THEN [err |-> "yaml", dnsRecords |-> NilMap]
            ELSE [err |-> "", dnsRecords |-> addRecordsV1(NilMap, d.records)]

\* loadConfig: err and the globals as it leaves them
loadConfigV1(conf, file) ==
    LET unset == [err |-> "", dnsRecords |-> NilMap, forwarder |-> "",
                  queryLogging |-> FALSE, queryLogOpen |-> FALSE]
        zone == loadZoneDataV1(file)
        logging == MustBool(conf.query_logging, FALSE)
    IN IF ~conf.loadable THEN [unset EXCEPT !.err = "ini"]
       ELSE IF zone.err # ""
       THEN [unset EXCEPT !.err = zone.err, !.dnsRecords = zone.dnsRecords]
       ELSE [err |-> IF logging /\ ~conf.logOpenable THEN "log" ELSE "",
             dnsRecords |-> zone.dnsRecords,
             forwarder |-> conf.forwarder,
             queryLogging |-> logging,
             queryLogOpen |-> logging /\ conf.logOpenable]

\* the local branch of the loop body for question i
answerLocalV1(st) ==
    [st EXCEPT !.m.Answer = @ \o dnsRecords[st.r.Question[st.i].Name],
               !.log = logQuery(@, st.r.Question[st.i].Name,
                                "Authoritative response"),
               !.i = @ + 1]

\* the NXDOMAIN branch of the loop body for question i
answerNXDOMAINV1(st) ==
    [st EXCEPT !.m = SetRcode(st.m, st.r, RcodeNameError),
               !.log = logQuery(@, st.r.Question[st.i].Name, "NXDOMAIN response"),
               !.i = @ + 1]

\* the successful-exchange branch: WriteMsg(resp), logQuery, return
answerForwardedV1(st, resp) ==
    [st EXCEPT !.resp = <<resp>>, !.wrote = Append(@, resp),
               !.log = logQuery(@, st.r.Question[st.i].Name,
                                "Forwarded response"),
               !.pc = "done"]

\* the loop of handleRequest from question i on, up to the next call of
\* c.Exchange (pc "exchange") or to the final WriteMsg (pc "done")
RECURSIVE runLoopV1(_)
runLoopV1(st) ==
    IF st.i > Len(st.r.Question)
    THEN [st EXCEPT !.pc = "done", !.wrote = Append(@, st.m)]
    ELSE IF st.r.Question[st.i].Name \in DOMAIN dnsRecords
    THEN runLoopV1(answerLocalV1(st))
    ELSE IF forwarder # ""
    THEN [st EXCEPT !.pc = "exchange", !.exch = Append(@, st.i)]
    ELSE runLoopV1(answerNXDOMAINV1(st))

\* what handleRequest does when c.Exchange returns (resp, err)
afterExchangeV1(st, result) ==
    IF ~result.err
    THEN answerForwardedV1(st, result.resp)
    ELSE runLoopV1(answerNXDOMAINV1([st EXCEPT !.errs = Append(@, st.i)]))

----------------------------------------------------------------------------
(* Inputs.                                                                 *)

Exts == {".yaml", ".yml", ".csv", ".txt"}
Formats == {"yaml", "csv", "json"}

\* settings.conf
Settings(forwarders) ==
    [loadable : BOOLEAN, zone_file_format : Formats, forwarder : forwarders,
     enable_forwarding : {"true", "false", ""},
     query_logging : {"true", "false", ""}, logOpenable : BOOLEAN]

Missing == [kind |-> "missing"]
Garbage == [kind |-> "garbage"]
Yaml(records) == [kind |-> "yaml", records |-> records]
Csv(rows) == [kind |-> "csv", rows |-> rows]

FilesOf(contents) == [ext : Exts, content : contents]

Rec(name, type, data) == [Name |-> name, Type |-> type, TTL |-> 600, Data |-> data]

Header == <<"name", "type", "ttl", "data">>
ShortHeader == <<"name", "type", "ttl">>
Ttl600 == <<"6", "0", "0">>

\* zone files of the serving specifications
ServeContents ==
    { Missing, Garbage,
      Yaml(<<>>),
      Yaml(<<Rec(<<"A">>, "A", "192.0.2.1")>>),
      Yaml(<<Rec(<<"a", ".">>, "A", "192.0.2.1"),
             Rec(<<"A", ".">>, "CNAME", "b"),
             Rec(<<"b">>, "MX", "mail")>>),
      Yaml(<<Rec(<<"B">>, "A", "bogus"), Rec(<<"a">>, "A", "10.0.0.5")>>),
      Csv(<<Header, <<<<"A">>, "A", Ttl600, "192.0.2.1">> >>),
      Csv(<<Header, <<<<"A">>, "A", Ttl600>> >>) }

QueryNames == {<<"a">>, <<"A", ".">>, <<"b", ".">>, <<"c">>}

MsgsUpTo(n) ==
    {[Question |-> q] : q \in SeqsUpTo({[Name |-> n1] : n1 \in QueryNames}, n)}

UpstreamRR(section) ==
    [Name |-> <<"u", ".">>, Rrtype |-> "A", Ttl |-> 30, Rdata |-> section]

\* what the upstream may do with a forwarded message
Outcomes ==
    {[err |-> TRUE]} \cup
    [err : {FALSE},
     Rcode : {RcodeSuccess, RcodeServerFailure, RcodeNameError},
     answers : BOOLEAN, referral : BOOLEAN]

\* c.Exchange(r, forwarder+":53") for one outcome of the upstream, which
\* echoes the question section of the message it was sent
Exchange(r, outcome) ==
    IF outcome.err THEN [err |-> TRUE]
    ELSE [err |-> FALSE,
          resp |-> [Rcode |-> outcome.Rcode,
                    Question |-> r.Question,
                    Answer |-> IF outcome.answers
                               THEN <<UpstreamRR("answer")>> ELSE <<>>,
                    Ns |-> IF outcome.referral
                           THEN <<UpstreamRR("authority")>> ELSE <<>>,
                    Extra |-> IF outcome.referral
                              THEN <<UpstreamRR("additional")>> ELSE <<>>]]

\* zone files of the loading specification: every YAML document and CSV table
\* of up to MaxRecords entries over a few names, types and field values
YamlEntries ==
    {Rec(n, t, "192.0.2.1") : n \in {<<"A">>, <<"a", ".">>, <<"b">>},
                              t \in {"A", "CNAME", "MX"}}

CsvRows ==
    {<<n, t, ttl, "192.0.2.1">> :
        n \in {<<"A">>, <<"b", ".">>}, t \in {"A", "MX"},
        ttl \in {Ttl600, <<"x">>,
                 <<"4", "2", "9", "4", "9", "6", "7", "2", "9", "6">>}}
    \cup {<<<<"A">>, "A", Ttl600>>}
    \cup {<<<<"A">>, "A", Ttl600, "192.0.2.1", "extra">>}

LoadContents ==
    {Missing, Garbage, Csv(<<>>)}
    \cup {Yaml(records) : records \in SeqsUpTo(YamlEntries, MaxRecords)}
    \cup {Csv(<<header>> \o rows) :
             header \in {Header, ShortHeader},
             rows \in SeqsUpTo(CsvRows, MaxRecords)}

LoadSettings ==
    [loadable : {TRUE}, zone_file_format : Formats, forwarder : {""},
     enable_forwarding : {""}, query_logging : {"true"}, logOpenable : BOOLEAN]

\* inputs of the concurrent specification
ConcContents ==
    { Missing, Garbage,
      Yaml(<<Rec(<<"A">>, "A", "192.0.2.1")>>),
      Csv(<<Header, <<<<"a", ".">>, "CNAME", Ttl600, "b">> >>),
      Csv(<<Header, <<<<"A">>, "A", Ttl600>> >>) }

ConcSettings ==
    [loadable : BOOLEAN, zone_file_format : Formats, forwarder : {"1.1.1.1"},
     enable_forwarding : {"true", "false"}, query_logging : {"false"},
     logOpenable : {TRUE}]

ConcMsgs ==
    { [Question |-> <<[Name |-> <<"a">>]>>],
      [Question |-> <<[Name |-> <<"c">>]>>],
      [Question |-> <<[Name |-> <<"c">>], [Name |-> <<"A", ".">>]>>] }

ConcOutcomes ==
    { [err |-> TRUE],
      [err |-> FALSE, Rcode |-> RcodeSuccess, answers |-> TRUE, referral |-> FALSE] }

----------------------------------------------------------------------------
(* Actions.                                                                *)

\* main: loadConfig, then log.Fatalf or ListenAndServe
main(Confs, Files) ==
    /\ phase = "boot"
    /\ server' = "yaml-csv"
    /\ \E conf \in Confs, file \in Files, listenOk \in BOOLEAN :
         LET res == loadConfig(conf, file)
         IN /\ zoneFile' = file
            /\ loadErr' = res.err
            /\ zoneFileFormat' = res.zoneFileFormat
            /\ dnsRecords' = res.dnsRecords
            /\ forwarder' = res.forwarder
            /\ enableForwarding' = res.enableForwarding
            /\ queryLogging' = res.queryLogging
            /\ queryLogOpen' = res.queryLogOpen
            /\ phase' = IF startsServing(res.err) /\ listenOk
                        THEN "serving" ELSE "fatal"
    /\ UNCHANGED hs

\* the server hands a message to a new handleRequest goroutine
handleRequest(h, Msgs) ==
    /\ server = "yaml-csv"
    /\ phase = "serving"
    /\ hs[h].pc = "idle"
    /\ \E r \in Msgs :
         hs' = [hs EXCEPT ![h] =
                   runLoop([Idle EXCEPT !.r = r, !.i = 1,
                                        !.m = SetReply(NewMsg, r)])]
    /\ UNCHANGED globals

\* c.Exchange returns to the handler that called it
exchangeReturns(h, Upstream) ==
    /\ server = "yaml-csv"
    /\ hs[h].pc = "exchange"
    /\ \E outcome \in Upstream :
         hs' = [hs EXCEPT ![h] = afterExchange(hs[h], Exchange(hs[h].r, outcome))]
    /\ UNCHANGED globals

\* handleRequest has returned; the goroutine ends
handlerEnds(h) ==
    /\ hs[h].pc = "done"
    /\ hs' = [hs EXCEPT ![h] = Idle]
    /\ UNCHANGED globals

\* main of dns-server.go
mainV1(Confs, Files) ==
    /\ phase = "boot"
    /\ server' = "yaml-only"
    /\ \E conf \in Confs, file \in Files, listenOk \in BOOLEAN :
         LET res == loadConfigV1(conf, file)
         IN /\ zoneFile' = file
            /\ loadErr' = res.err
            /\ dnsRecords' = res.dnsRecords
            /\ forwarder' = res.forwarder
            /\ queryLogging' = res.queryLogging
            /\ queryLogOpen' = res.queryLogOpen
            /\ phase' = IF startsServing(res.err) /\ listenOk
                        THEN "serving" ELSE "fatal"
    /\ UNCHANGED <<zoneFileFormat, enableForwarding, hs>>

\* handleRequest of dns-server.go
handleRequestV1(h, Msgs) ==
    /\ server = "yaml-only"
    /\ phase = "serving"
    /\ hs[h].pc = "idle"
    /\ \E r \in Msgs :
         hs' = [hs EXCEPT ![h] =
                   runLoopV1([Idle EXCEPT !.r = r, !.i = 1,
                                          !.m = SetReply(NewMsg, r)])]
    /\ UNCHANGED globals

\* c.Exchange returns to the handler of dns-server.go that called it
exchangeReturnsV1(h, Upstream) ==
    /\ server = "yaml-only"
    /\ hs[h].pc = "exchange"
    /\ \E outcome \in Upstream :
         hs' = [hs EXCEPT ![h] = afterExchangeV1(hs[h], Exchange(hs[h].r, outcome))]
    /\ UNCHANGED globals

Init ==
    /\ server = "none"
    /\ phase = "boot"
    /\ zoneFile = [ext |-> "", content |-> [kind |-> "missing"]]
    /\ loadErr = ""
    /\ zoneFileFormat = ""
    /\ dnsRecords = NilMap
    /\ forwarder = ""
    /\ enableForwarding = FALSE
    /\ queryLogging = FALSE
    /\ queryLogOpen = FALSE
    /\ hs = [h \in Handlers |-> Idle]

----------------------------------------------------------------------------
(* Specifications.                                                         *)

\* one request in flight, every kind of message and of upstream response
Next ==
    \/ main(Settings({"", "1.1.1.1"}), FilesOf(ServeContents))
    \/ handleRequest(1, MsgsUpTo(MaxQuestions))
    \/ exchangeReturns(1, Outcomes)
    \/ handlerEnds(1)

Spec == Init /\ [][Next]_vars

\* either of the two servers, one request in flight
NextEither ==
    \/ Next
    \/ mainV1(Settings({"", "1.1.1.1"}), FilesOf(ServeContents))
    \/ handleRequestV1(1, MsgsUpTo(MaxQuestions))
    \/ exchangeReturnsV1(1, Outcomes)

SpecEither == Init /\ [][NextEither]_vars

\* start-up alone, on every zone file of LoadContents
NextLoad == main(LoadSettings, FilesOf(LoadContents))

SpecLoad == Init /\ [][NextLoad]_vars

\* NumHandlers requests in flight at once
NextConcurrent ==
    \/ main(ConcSettings, FilesOf(ConcContents))
    \/ \E h \in Handlers : handleRequest(h, ConcMsgs)
    \/ \E h \in Handlers : exchangeReturns(h, ConcOutcomes)
    \/ \E h \in Handlers : handlerEnds(h)

SpecConcurrent == Init /\ [][NextConcurrent]_vars

----------------------------------------------------------------------------
(* Vocabulary of the properties.                                           *)

FoldChar(c) == CASE c = "A" -> "a" [] c = "B" -> "b" [] OTHER -> c

\* a name with the missing trailing '.' appended, in lower case
Canonical(name) ==
    LET dotted == IF name # <<>> /\ name[Len(name)] = "." THEN name
                  ELSE name \o <<".">>
    IN [k \in 1..Len(dotted) |-> FoldChar(dotted[k])]

Known(name) == Canonical(name) \in DOMAIN dnsRecords

Questions(h) == 1..Len(hs[h].r.Question)
QName(h, i) == hs[h].r.Question[i].Name
Range(seq) == {seq[k] : k \in 1..Len(seq)}

\* sub occurs in seq as a block
Within(sub, seq) ==
    \E k \in 0..(Len(seq) - Len(sub)) : SubSeq(seq, k + 1, k + Len(sub)) = sub

Done(h) == hs[h].pc = "done"
Forwarded(h) == hs[h].resp # <<>>

----------------------------------------------------------------------------
(* Properties of the query handler.                                        *)

\* C1: when a question has no local entry, forwarding is on and the exchange
\* succeeds, the message written to the client is the upstream's response
\* verbatim: same rcode, question, answer, authority and additional sections.
C1_ForwardedVerbatim ==
    \A h \in Handlers :
        Done(h) /\ Forwarded(h) =>
            LET w == hs[h].wrote[1]
                u == hs[h].resp[1]
            IN /\ Len(hs[h].wrote) = 1
               /\ w.Rcode = u.Rcode
               /\ w.Question = u.Question
               /\ w.Answer = u.Answer
               /\ w.Ns = u.Ns
               /\ w.Extra = u.Extra

\* C2 as stated: for every question whose normalized name is a key of
\* dnsRecords, the response written contains that name's local records and no
\* exchange is started for that question, whatever else the message carries.
C2_LocalAlwaysAnswered ==
    \A h \in Handlers :
        /\ \A i \in Range(hs[h].exch) : ~Known(QName(h, i))
        /\ Done(h) =>
              \A i \in Questions(h) :
                  Known(QName(h, i)) =>
                      Within(dnsRecords[Canonical(QName(h, i))],
                             hs[h].wrote[1].Answer)

\* C2 amended: no exchange is ever started for a locally-known question, and
\* when no question of the message is forwarded successfully the response
\* written contains the local records of every locally-known question.
C2_LocalAnsweredUnlessForwarded ==
    \A h \in Handlers :
        /\ \A i \in Range(hs[h].exch) : ~Known(QName(h, i))
        /\ Done(h) /\ ~Forwarded(h) =>
              \A i \in Questions(h) :
                  Known(QName(h, i)) =>
                      Within(dnsRecords[Canonical(QName(h, i))],
                             hs[h].wrote[1].Answer)

\* a request mixing a known and an unknown name, forwarding on, the exchange
\* failed, and the reply written
C2_Witness ==
    \E h \in Handlers :
        /\ Done(h) /\ ~Forwarded(h) /\ hs[h].errs # <<>>
        /\ \E i \in Questions(h) :
              /\ Known(QName(h, i))
              /\ QName(h, i) # Canonical(QName(h, i))
              /\ Len(dnsRecords[Canonical(QName(h, i))]) > 1

\* C3: with enable_forwarding false no exchange is ever performed, and a
\* request with a question whose name is absent from dnsRecords is answered
\* with rcode NXDOMAIN, whether or not a forwarder is configured.
C3_ForwardingGate ==
    \A h \in Handlers :
        ~enableForwarding =>
            /\ hs[h].pc # "exchange"
            /\ hs[h].exch = <<>>
            /\ Done(h) /\ (\E i \in Questions(h) : ~Known(QName(h, i))) =>
                  /\ Len(hs[h].wrote) = 1
                  /\ hs[h].wrote[1].Rcode = RcodeNameError

\* forwarding switched off with a forwarder configured, and a request with an
\* unknown name followed by a known one answered
C3_Witness ==
    \E h \in Handlers :
        /\ ~enableForwarding /\ forwarder # ""
        /\ Done(h) /\ Len(hs[h].r.Question) = 2
        /\ ~Known(QName(h, 1)) /\ Known(QName(h, 2))

\* C4 as stated: when the exchange for a question fails, no second exchange
\* is attempted for that question, the rcode is set to NXDOMAIN, a response is
\* still written, and that response is never anything but an NXDOMAIN reply.
C4_FailedForwardIsNXDOMAIN ==
    \A h \in Handlers :
        /\ \A j, k \in 1..Len(hs[h].exch) : hs[h].exch[j] = hs[h].exch[k] => j = k
        /\ hs[h].pc = "exchange" /\ hs[h].errs # <<>> =>
              hs[h].m.Rcode = RcodeNameError
        /\ Done(h) => Len(hs[h].wrote) = 1
        /\ Done(h) /\ hs[h].errs # <<>> =>
              hs[h].wrote[1].Rcode = RcodeNameError

\* C4 amended: when the exchange for a question fails, no second exchange is
\* attempted for that question, the rcode is set to NXDOMAIN and exactly one
\* response is written; that response has rcode NXDOMAIN unless a later
\* question of the same message is forwarded successfully.
C4_FailedForwardIsNXDOMAINUnlessForwarded ==
    \A h \in Handlers :
        /\ \A j, k \in 1..Len(hs[h].exch) : hs[h].exch[j] = hs[h].exch[k] => j = k
        /\ hs[h].pc = "exchange" /\ hs[h].errs # <<>> =>
              hs[h].m.Rcode = RcodeNameError
        /\ Done(h) => Len(hs[h].wrote) = 1
        /\ Done(h) /\ hs[h].errs # <<>> /\ ~Forwarded(h) =>
              hs[h].wrote[1].Rcode = RcodeNameError

\* an exchange failed for the first question, a known question followed, and
\* the reply was written
C4_Witness ==
    \E h \in Handlers :
        /\ Done(h) /\ ~Forwarded(h)
        /\ hs[h].errs = <<1>> /\ hs[h].exch = <<1>>
        /\ Len(hs[h].r.Question) = 2 /\ Known(QName(h, 2))
        /\ hs[h].wrote[1].Rcode = RcodeNameError

\* the zone entries addRecord stored: the records of a YAML file, the data
\* rows of a CSV file with four fields and a parsable TTL
Supported(type) == type \in {"A", "CNAME"}

\* loadZoneData returned nil
ZoneLoaded == phase # "boot" /\ loadErr \in {"", "log"}

LoadedNames ==
    IF ~ZoneLoaded THEN {}
    ELSE IF zoneFile.content.kind = "yaml"
    THEN {e.Name : e \in {x \in Range(zoneFile.content.records) : Supported(x.Type)}}
    ELSE IF zoneFile.content.kind = "csv" /\ Len(zoneFile.content.rows) > 1
    THEN {row[1] : row \in {x \in Range(Tail(zoneFile.content.rows)) :
                               /\ Len(x) = 4
                               /\ ~parseTTL(x[3]).err
                               /\ Supported(x[2])}}
    ELSE {}

\* the questions the loop has dealt with when the handler waits or is done
Handled(h) ==
    IF hs[h].pc = "exchange" THEN 1..(hs[h].i - 1)
    ELSE IF Done(h) /\ ~Forwarded(h) THEN Questions(h)
    ELSE {}

\* C6: lookup is insensitive to letter case and to the trailing dot: when a
\* query name and the name of a zone entry of a supported type are equal after
\* appending the missing '.' and lower-casing, handleRequest finds the entry's
\* records and answers with them; addRecord and handleRequest normalize with
\* the same, idempotent function.
C6_LookupIgnoresCaseAndDot ==
    /\ \A n \in LoadedNames :
          /\ recordKey(addDot(n)) \in DOMAIN dnsRecords
          /\ \E rr \in Range(dnsRecords[recordKey(addDot(n))]) : rr.Name = addDot(n)
          /\ queryKey(n) = recordKey(addDot(n))
          /\ recordKey(addDot(recordKey(addDot(n)))) = recordKey(addDot(n))
    /\ \A h \in Handlers : \A i \in Questions(h) :
          /\ queryKey(queryKey(QName(h, i))) = queryKey(QName(h, i))
          /\ queryKey(QName(h, i)) = recordKey(addDot(QName(h, i)))
          /\ \A n \in LoadedNames :
                Canonical(QName(h, i)) = Canonical(n) =>
                    /\ i \notin Range(hs[h].exch)
                    /\ i \in Handled(h) =>
                          /\ Within(dnsRecords[queryKey(QName(h, i))], hs[h].m.Answer)
                          /\ \E rr \in Range(hs[h].m.Answer) : rr.Name = addDot(n)

\* a query name that is neither the entry's name as written nor that name
\* with the dot appended (entry "A", query "a"), answered from the table
C6_Witness ==
    \E h \in Handlers : \E i \in Questions(h) : \E n \in LoadedNames :
        /\ Done(h) /\ ~Forwarded(h)
        /\ QName(h, i) # n /\ QName(h, i) # addDot(n)
        /\ Canonical(QName(h, i)) = Canonical(n)
        /\ n # Canonical(n)
        /\ hs[h].wrote[1].Answer # <<>>

\* the kind of line logQuery writes for question i of a finished request
ExpectedResponse(h, i) ==
    IF Known(QName(h, i)) THEN "Authoritative response"
    ELSE IF Forwarded(h) /\ i = hs[h].i THEN "Forwarded response"
    ELSE "NXDOMAIN response"

\* C7 as stated: with query logging on and the log file open, handleRequest
\* writes exactly one query-log line for every question of the message, tagged
\* with the question's original name.
C7_OneLinePerQuestion ==
    \A h \in Handlers :
        Done(h) /\ queryLogging /\ queryLogOpen =>
            /\ Len(hs[h].log) = Len(hs[h].r.Question)
            /\ \A i \in Questions(h) :
                  /\ hs[h].log[i].query = QName(h, i)
                  /\ hs[h].log[i].response \in
                        {"Authoritative response", "Forwarded response",
                         "NXDOMAIN response"}

\* C7 amended: with query logging on and the log file open, handleRequest
\* writes exactly one query-log line, tagged with the original name, for every
\* question up to and including the first one forwarded successfully; the
\* questions after a successful forward get no line.
C7_OneLinePerHandledQuestion ==
    \A h \in Handlers :
        Done(h) /\ queryLogging /\ queryLogOpen =>
            LET n == IF Forwarded(h) THEN hs[h].i ELSE Len(hs[h].r.Question)
            IN /\ Len(hs[h].log) = n
               /\ \A i \in 1..n :
                     /\ hs[h].log[i].query = QName(h, i)
                     /\ hs[h].log[i].response = ExpectedResponse(h, i)

\* logging on, a message of two questions whose first is forwarded
C7_Witness ==
    \E h \in Handlers :
        /\ Done(h) /\ queryLogging /\ queryLogOpen
        /\ Forwarded(h) /\ hs[h].i = 1 /\ Len(hs[h].r.Question) = 2
        /\ Len(hs[h].log) = 1
        /\ QName(h, 1) # Canonical(QName(h, 1))

\* the name of question i has an entry in the table of the server at work
HasEntry(h, i) ==
    IF server = "yaml-only" THEN QName(h, i) \in DOMAIN dnsRecords
    ELSE Known(QName(h, i))

\* C10 as stated: without a successful forward, the response has rcode
\* NXDOMAIN only if its answer section is empty, and a response carrying
\* local records has rcode NOERROR.
C10_NXDOMAINHasNoAnswer ==
    \A h \in Handlers :
        Done(h) /\ ~Forwarded(h) =>
            LET w == hs[h].wrote[1]
            IN /\ w.Rcode = RcodeNameError => w.Answer = <<>>
               /\ w.Answer # <<>> => w.Rcode = RcodeSuccess

\* C10 amended: without a successful forward, the response has rcode NXDOMAIN
\* exactly when some question's name has no local entry (NOERROR otherwise),
\* and its answer section is empty exactly when no question's name has a
\* local entry; so NXDOMAIN comes with an empty answer section when the
\* message carries one question, but not when it mixes known and unknown names.
C10_NXDOMAINIffUnknownQuestion ==
    \A h \in Handlers :
        Done(h) /\ ~Forwarded(h) =>
            LET w == hs[h].wrote[1]
                unknown == \E i \in Questions(h) : ~HasEntry(h, i)
                known == \E i \in Questions(h) : HasEntry(h, i)
            IN /\ w.Rcode = (IF unknown THEN RcodeNameError ELSE RcodeSuccess)
               /\ (w.Answer = <<>>) <=> ~known
               /\ Len(hs[h].r.Question) <= 1 =>
                     (w.Rcode = RcodeNameError => w.Answer = <<>>)

\* a known question followed by an unknown one whose exchange failed: the
\* reply has rcode NXDOMAIN and carries the records of the known name
C10_Witness ==
    \E h \in Handlers :
        /\ Done(h) /\ ~Forwarded(h) /\ hs[h].errs = <<2>>
        /\ Len(hs[h].r.Question) = 2
        /\ HasEntry(h, 1) /\ ~HasEntry(h, 2)
        /\ hs[h].wrote[1].Rcode = RcodeNameError
        /\ hs[h].wrote[1].Answer # <<>>

----------------------------------------------------------------------------
(* Properties of start-up.                                                 *)

\* the table the CSV rows with four fields and a parsable TTL make
RECURSIVE TableOfGoodRows(_, _)
TableOfGoodRows(table, rows) ==
    IF rows = <<>> THEN table
    ELSE LET row == Head(rows)
             next == IF Len(row) = 4 /\ ~parseTTL(row[3]).err
                     THEN addRecord(table, [Name |-> row[1], Type |-> row[2],
                                            TTL |-> parseTTL(row[3]).ttl,
                                            Data |-> row[4]])
                     ELSE table
         IN TableOfGoodRows(next, Tail(rows))

\* a CSV zone file with the header name,type,ttl,data was read as CSV
CsvWithHeader ==
    /\ phase # "boot"
    /\ zoneFileFormat = "csv" /\ zoneFile.ext = ".csv"
    /\ zoneFile.content.kind = "csv"
    /\ Len(zoneFile.content.rows) >= 1
    /\ Len(zoneFile.content.rows[1]) = 4

\* C5: reading a CSV zone file with the header name,type,ttl,data, a data row
\* whose field count is not 4 is skipped and does not fail the load: the rows
\* with 4 fields and a parsable TTL are loaded and loadZoneData returns nil.
C5_WrongFieldCountSkipped ==
    CsvWithHeader =>
        /\ ZoneLoaded
        /\ dnsRecords = TableOfGoodRows(NilMap, Tail(zoneFile.content.rows))

IsLower(name) == \A k \in 1..Len(name) : name[k] \notin {"A", "B"}
EndsWithDot(name) == name # <<>> /\ name[Len(name)] = "."

\* C9 as stated: every record of dnsRecords has an owner name that ends with
\* '.', is in lower case and equals the key it is stored under; unsupported
\* types create no key, so every key maps to a non-empty sequence.
C9_OwnerIsKey ==
    phase = "serving" =>
    \A key \in DOMAIN dnsRecords :
        /\ dnsRecords[key] # <<>>
        /\ \E n \in LoadedNames : Canonical(n) = key
        /\ \A rr \in Range(dnsRecords[key]) :
              /\ EndsWithDot(rr.Name)
              /\ IsLower(rr.Name)
              /\ rr.Name = key

\* C9 amended: every record of dnsRecords has an owner name that ends with
\* '.' and whose lower-cased form equals the key it is stored under (the owner
\* name itself keeps the letter case of the zone file); every key is in lower
\* case and ends with '.'; unsupported types create no key, so every key maps
\* to a non-empty sequence.
C9_LoweredOwnerIsKey ==
    \A key \in DOMAIN dnsRecords :
        /\ dnsRecords[key] # <<>>
        /\ EndsWithDot(key) /\ IsLower(key)
        /\ \E n \in LoadedNames : Canonical(n) = key
        /\ \A rr \in Range(dnsRecords[key]) :
              /\ EndsWithDot(rr.Name)
              /\ Canonical(rr.Name) = key
              /\ rr.Rrtype \in {"A", "CNAME"}

\* a zone with an upper-case name without dot, and an entry of an unsupported
\* type whose name got no key
C9_Witness ==
    /\ ZoneLoaded
    /\ \E key \in DOMAIN dnsRecords : \E rr \in Range(dnsRecords[key]) :
          rr.Name # key
    /\ zoneFile.content.kind = "yaml"
    /\ \E e \in Range(zoneFile.content.records) :
          ~Supported(e.Type) /\ Canonical(e.Name) \notin DOMAIN dnsRecords

\* the zone file cannot be loaded: it cannot be opened, its YAML cannot be
\* decoded, its CSV cannot be read, the format is not recognized, or the
\* extension does not match the format
LoadFails ==
    /\ phase # "boot"
    /\ \/ zoneFile.content.kind = "missing"
       \/ zoneFileFormat = "yaml" /\ zoneFile.content.kind # "yaml"
       \/ zoneFileFormat = "csv" /\ zoneFile.content.kind # "csv"
       \/ zoneFileFormat \notin {"yaml", "csv"}
       \/ zoneFileFormat = "yaml" /\ zoneFile.ext \notin {".yaml", ".yml"}
       \/ zoneFileFormat = "csv" /\ zoneFile.ext # ".csv"

\* C8: dnsRecords is fully built before the first query is handled, no query
\* handler changes it afterwards under any interleaving of handlers, and the
\* server never starts serving when loading the zone fails.
C8_TableBuiltOnceBeforeServing ==
    /\ [](\A h \in Handlers : hs[h].pc # "idle" => phase = "serving")
    /\ [](phase = "serving" =>
             /\ loadErr = ""
             /\ dnsRecords = loadZoneData(zoneFile, zoneFileFormat).dnsRecords)
    /\ [][phase = "serving" => dnsRecords' = dnsRecords]_vars
    /\ [](LoadFails => phase = "fatal")

\* two handlers at work at once on a loaded table, one inside its exchange
C8_Witness ==
    /\ phase = "serving" /\ DOMAIN dnsRecords # {}
    /\ \E g, h \in Handlers :
          g # h /\ hs[g].pc = "exchange" /\ hs[h].pc = "done"

====
